---- MODULE Spec2Model ----
(***************************************************************************)
(* The request-logging core of the task API: the accessLogger and          *)
(* requestLog middlewares (backend/access-logs.js, backend/request-logs.js)*)
(* inside the Express pipeline that server.js registers.                   *)
(*                                                                         *)
(* JavaScript runs one synchronous turn at a time: `turn` names the        *)
(* request whose turn is executing, 0 when the event loop is idle.  The    *)
(* middlewares of one request run inside one turn; a turn ends where the   *)
(* code waits (request body, database reply, response flush, file append). *)
(***************************************************************************)
EXTENDS Integers, Sequences, FiniteSets, TLC

\* Number of requests the server receives in one behaviour.
MaxReq == 2
\* Longest x-forwarded-for header value, in characters, of SpecHdr.
MaxLen == 3
\* Number of times the process is started in one behaviour of SpecStart.
MaxStarts == 2
\* Largest reading of the monotonic clock, in nanoseconds, of SpecClock.
MaxClock == 4000000

Requests == 1..MaxReq

----------------------------------------------------------------------------
(* JavaScript values.  A string is a sequence of atoms: single characters  *)
(* where the code inspects them (header values), opaque tokens elsewhere.  *)

Undefined == [t |-> "undefined", s |-> <<>>]
Str(s) == [t |-> "string", s |-> s]

\* true and false.
Bool(b) == [t |-> "boolean", s |-> <<IF b THEN "true" ELSE "false">>]

\* ToBoolean: undefined, the empty string and false are falsy.
Truthy(v) ==
  \/ v.t = "string" /\ v.s # <<>>
  \/ v.t = "boolean" /\ v.s = <<"true">>

\* a || b
JsOr(a, b) == IF Truthy(a) THEN a ELSE b

\* `${v}` inside a template literal.
Interp(v) == IF v.t = "undefined" THEN <<"undefined">> ELSE v.s

\* s.split(",")[0]: the characters before the first comma.
RECURSIVE SplitFirst(_)
SplitFirst(s) ==
  IF s = <<>> \/ Head(s) = "," THEN <<>> ELSE <<Head(s)>> \o SplitFirst(Tail(s))

RECURSIVE TrimStart(_)
TrimStart(s) == IF s # <<>> /\ Head(s) = " " THEN TrimStart(Tail(s)) ELSE s

RECURSIVE TrimEnd(_)
TrimEnd(s) ==
  IF s # <<>> /\ s[Len(s)] = " " THEN TrimEnd(SubSeq(s, 1, Len(s) - 1)) ELSE s

\* s.trim()
Trim(s) == TrimEnd(TrimStart(s))

\* All strings over `chars` of length at most n.
RECURSIVE StringsUpTo(_, _)
StringsUpTo(chars, n) ==
  IF n = 0 THEN {<<>>}
  ELSE LET shorter == StringsUpTo(chars, n - 1)
       IN shorter \cup {Append(s, c) : s \in shorter, c \in chars}

----------------------------------------------------------------------------
(* Requests.  req.headers[...] is undefined for a header the client did    *)
(* not send; peer is req.socket.remoteAddress (and req.ip, trust proxy     *)
(* being off), undefined once the socket is gone.  body is "none" for a    *)
(* request without a body, "valid" or "malformed" JSON otherwise.  id is   *)
(* req.id, a property no middleware of the server sets.  json is req.body  *)
(* once parsed: the title and done of the object sent, undefined when the  *)
(* object has no such key; a request without a body has an empty object.   *)

\* The body object without title and done.
NoJson == [title |-> Undefined, done |-> Undefined]

NoReq == [method |-> "", url |-> <<>>, rid |-> Undefined, xff |-> Undefined,
          peer |-> Undefined, ua |-> Undefined, body |-> "none", id |-> Undefined,
          json |-> NoJson]

MkReq(method, url, body, rid, xff, peer, ua) ==
  [method |-> method, url |-> url, rid |-> rid, xff |-> xff,
   peer |-> peer, ua |-> ua, body |-> body, id |-> Undefined,
   json |-> IF body = "valid" THEN [title |-> Str(<<"a">>), done |-> Undefined]
            ELSE NoJson]

PeerAddr == Str(<<"10.0.0.5">>)
Curl == Str(<<"curl/8.14.1">>)

\* The requests of Spec: one per way through the pipeline.
RequestSamples ==
  { MkReq("GET", <<"/api/health">>, "none", Str(<<"abc123">>), Undefined, PeerAddr, Curl),
    MkReq("POST", <<"/api/tasks">>, "valid", Undefined,
          Str(<<"1", ",", " ", "5">>), PeerAddr, Curl),
    MkReq("POST", <<"/api/tasks">>, "malformed", Str(<<>>), Str(<<" ">>), PeerAddr, Undefined),
    MkReq("OPTIONS", <<"/api/tasks">>, "none", Undefined, Undefined, Undefined, Curl),
    MkReq("GET", <<"/nope">>, "none", Str(<<"abc123">>), Str(<<"1">>), PeerAddr, Curl) }

XffChars == {"1", "5", " ", ","}

\* A request to a task route whose JSON body has the given title and done.
MkTaskReq(method, url, title, done) ==
  [MkReq(method, url, "valid", Undefined, Undefined, PeerAddr, Curl)
     EXCEPT !.json = [title |-> title, done |-> done]]

\* The requests of SpecTasks.  Task "0" is stored when the server starts; no
\* task "9" ever is.  Every PUT sends a title or a done.
TaskRequests ==
  { MkTaskReq("POST", <<"/api/tasks">>, Str(<<"a">>), Undefined),
    MkTaskReq("POST", <<"/api/tasks">>, Str(<<" ", "a", " ">>), Str(<<"yes">>)),
    MkTaskReq("POST", <<"/api/tasks">>, Str(<<" ">>), Bool(TRUE)),
    MkTaskReq("POST", <<"/api/tasks">>, Str(<<>>), Undefined),
    MkTaskReq("POST", <<"/api/tasks">>, Undefined, Bool(TRUE)),
    MkTaskReq("PUT", <<"/api/tasks/", "0">>, Str(<<" ", "b">>), Undefined),
    MkTaskReq("PUT", <<"/api/tasks/", "0">>, Undefined, Bool(TRUE)),
    MkTaskReq("PUT", <<"/api/tasks/", "0">>, Str(<<" ">>), Bool(FALSE)),
    MkTaskReq("PUT", <<"/api/tasks/", "1">>, Str(<<"c">>), Str(<<"yes">>)),
    MkTaskReq("PUT", <<"/api/tasks/", "9">>, Str(<<"b">>), Undefined),
    MkReq("DELETE", <<"/api/tasks/", "0">>, "none", Undefined, Undefined, PeerAddr, Curl),
    MkReq("DELETE", <<"/api/tasks/", "9">>, "none", Undefined, Undefined, PeerAddr, Curl) }

\* The requests of SpecHdr: GET /api/health under every header combination.
HdrRequests ==
  { MkReq("GET", <<"/api/health">>, "none", rid, xff, peer, Curl) :
      rid \in {Undefined, Str(<<>>), Str(<<"abc123">>)},
      xff \in {Undefined} \cup {Str(s) : s \in StringsUpTo(XffChars, MaxLen)},
      peer \in {Undefined, PeerAddr} }

----------------------------------------------------------------------------
(* requestLog (backend/request-logs.js)                                    *)

\* new Date().toISOString(): the wall clock is not modelled.
IsoNow == <<"2025-11-04T10:47:26.512Z">>

\* LogObject with the header value logged as it is, whatever it is.
LogObjectNoSentinel(q) ==
  << <<"timestamp", Str(IsoNow)>>,
     <<"requestId", q.rid>>,
     <<"ip", JsOr(q.xff, q.peer)>>,
     <<"method", Str(<<q.method>>)>>,
     <<"path", Str(q.url)>>,
     <<"userAgent", q.ua>> >>

\* The object literal handed to JSON.stringify, as <<key, value>> pairs.
LogObject(q) ==
  << <<"timestamp", Str(IsoNow)>>,
     <<"requestId", JsOr(q.rid, Str(<<"no-rid">>))>>,
     <<"ip", JsOr(q.xff, q.peer)>>,
     <<"method", Str(<<q.method>>)>>,
     <<"path", Str(q.url)>>,
     <<"userAgent", q.ua>> >>

\* JSON.stringify of an object: a key whose value is undefined is left out.
JsonStringify(obj) ==
  LET Defined(kv) == kv[2].t # "undefined" IN SelectSeq(obj, Defined)

\* The value the JSON text gives for `key`, Undefined when the key is not in it.
RECURSIVE JsonGet(_, _)
JsonGet(json, key) ==
  IF json = <<>> THEN Undefined
  ELSE IF Head(json)[1] = key THEN Head(json)[2]
  ELSE JsonGet(Tail(json), key)

----------------------------------------------------------------------------
(* accessLogger (backend/access-logs.js)                                   *)

\* Elapsed nanoseconds between the two process.hrtime.bigint() reads.
ElapsedSamples == {0, 849999, 1250000}

\* The amounts by which the clock of SpecClock advances, in nanoseconds.
TickSamples == {849999, 1250000}

\* ToFixed1 as toFixed(0): milliseconds rounded to a whole number.
ToFixed0(ns) == <<ToString((ns + 500000) \div 1000000)>>

\* (ns / 1e6).toFixed(1): milliseconds rounded to one decimal.  Halfway between
\* two tenths toFixed takes the larger when the double ns / 1e6 is exact, which
\* it is for the halfway values the samples reach (1.25, 3.75).
ToFixed1(ns) ==
  LET tenths == (ns + 50000) \div 100000
  IN <<ToString(tenths \div 10), ".", ToString(tenths % 10)>>

\* ClientIp without the trim() of the first entry.
ClientIpNoTrim(q) ==
  LET first == IF q.xff.t = "undefined" THEN Undefined ELSE Str(SplitFirst(q.xff.s))
  IN JsOr(JsOr(JsOr(first, Str(<<>>)), q.peer), Str(<<"unknown">>))

\* The proxy-aware client address.
ClientIp(q) ==
  LET first == IF q.xff.t = "undefined" THEN Undefined ELSE Str(SplitFirst(q.xff.s))
      trimmed == Str(Trim(JsOr(first, Str(<<>>)).s))
  IN JsOr(JsOr(trimmed, q.peer), Str(<<"unknown">>))

\* The access-log line of a response with status `status` sent `ns` after entry.
AccessLine(q, status, ns) ==
  IsoNow \o <<" ">> \o Interp(ClientIp(q)) \o <<" ", q.method, " ">> \o q.url
    \o <<" ", ToString(status), " ">> \o ToFixed1(ns) \o <<"ms", "\n">>

\* AppendChunks with the newline appended by a write of its own.
AppendChunksNewlineApart(line) == <<SubSeq(line, 1, Len(line) - 1), <<"\n">>>>

\* The writes one fs.appendFile(ACCESS_LOG, line, cb) call makes: the whole line
\* in one write to a file opened for appending.
AppendChunks(line) == <<line>>

\* CompletionEvents with the handler on 'close' as well.
CompletionEventsWithClose == {"finish", "close"}

\* The events of the response the completion handler is registered on.
CompletionEvents == {"finish"}

\* AppendCallbackOutput of the callback that ignores its error, () => {}.
AppendCallbackSilent(err) == <<>>

\* What the appendFile callback prints to console.error, given the error.
AppendCallbackOutput(err) ==
  IF err THEN << <<"access log write failed:", "err.message">> >> ELSE <<>>

----------------------------------------------------------------------------
(* server.js: the pipeline, in registration order.                         *)

\* Pipeline with requestLog registered before accessLogger.
PipelineRequestLogFirst == <<"requestLog", "accessLogger", "json", "cors", "route">>

\* Pipeline with requestLog registered after the body parser.
PipelineLogAfterParser == <<"accessLogger", "json", "requestLog", "cors", "route">>

Pipeline == <<"accessLogger", "requestLog", "json", "cors", "route">>

\* The route a request matches, "none" when no route does.  GET /api/tasks and
\* GET /api/debug are not among the requests of the model.
MatchRoute(q) ==
  IF q.method = "GET" /\ q.url = <<"/api/health">> THEN "health"
  ELSE IF q.method = "POST" /\ q.url = <<"/api/tasks">> THEN "create"
  ELSE IF q.method = "PUT" /\ Len(q.url) = 2 /\ q.url[1] = "/api/tasks/" THEN "update"
  ELSE IF q.method = "DELETE" /\ Len(q.url) = 2 /\ q.url[1] = "/api/tasks/"
    THEN "delete"
  ELSE "none"

\* req.params.id of /api/tasks/:id
ParamId(q) == q.url[2]

\* res.json({ ok, driver: "mongo", uptime: process.uptime() }) of /api/health.
HealthBody(ok) ==
  << <<"ok", IF ok THEN "true" ELSE "false">>, <<"driver", "mongo">>,
     <<"uptime", "process.uptime()">> >>

\* res.json(task) of POST /api/tasks: the document created.
TaskBody == << <<"id", "uuid()">>, <<"title", "title">>, <<"done", "false">> >>

\* The page Express's own handlers send (no route, an error passed to next).
HtmlBody == << <<"html", "express">> >>

\* res.json({ error: msg })
ErrorBody(msg) == << <<"error", msg>> >>

----------------------------------------------------------------------------
(* The Task collection.  A document has the id, title and done of the      *)
(* schema and the createdAt and updatedAt of its timestamps option.  uuid() *)
(* never repeats: the task request r creates has id r.  An instant is      *)
(* named by the request writing at it, 0 for what was before the server    *)
(* started.                                                                *)

\* The task stored before the server starts.
Task0 == [id |-> "0", title |-> <<"a">>, done |-> FALSE, createdAt |-> 0,
          updatedAt |-> 0]

\* uuid() in the handler of request r.
Uuid(r) == ToString(r)

\* CreateTitle without the trim().
CreateTitleNoTrim(q) == q.json.title

\* req.body?.title?.trim()
CreateTitle(q) ==
  IF q.json.title = Undefined THEN Undefined ELSE Str(Trim(q.json.title.s))

\* The document Task.create({ id: uuid(), title, done: !!req.body.done }) stores.
NewTask(r, q) ==
  [id |-> Uuid(r), title |-> CreateTitle(q).s, done |-> Truthy(q.json.done),
   createdAt |-> r, updatedAt |-> r]

\* Updates that always sets done, to !!req.body.done.
UpdatesAlwaysDone(q) ==
  [title |-> IF q.json.title # Undefined THEN Str(Trim(q.json.title.s))
             ELSE Undefined,
   done |-> Bool(Truthy(q.json.done))]

\* The updates object of PUT: title trimmed and done coerced, each only when
\* the body has it.
Updates(q) ==
  [title |-> IF q.json.title # Undefined THEN Str(Trim(q.json.title.s))
             ELSE Undefined,
   done |-> IF q.json.done # Undefined THEN Bool(Truthy(q.json.done))
            ELSE Undefined]

\* A document after the update u at instant now: the fields u has, and
\* updatedAt, which the timestamps option sets on every update.
UpdatedTask(t, u, now) ==
  [t EXCEPT !.title = IF u.title = Undefined THEN @ ELSE u.title.s,
            !.done = IF u.done = Undefined THEN @ ELSE Truthy(u.done),
            !.updatedAt = now]

\* AfterUpdate with upsert: a document is created when none has the id.
AfterUpdateUpsert(ts, id, u, now) ==
  IF \E t \in ts : t.id = id
    THEN {IF t.id = id THEN UpdatedTask(t, u, now) ELSE t : t \in ts}
    ELSE ts \cup {UpdatedTask([id |-> id, title |-> <<>>, done |-> FALSE,
                               createdAt |-> now, updatedAt |-> now], u, now)}

\* The collection after Task.findOneAndUpdate({ id }, u, { new: true, lean: true }).
AfterUpdate(ts, id, u, now) ==
  {IF t.id = id THEN UpdatedTask(t, u, now) ELSE t : t \in ts}

\* The collection after Task.deleteOne({ id }).
AfterDelete(ts, id) == {t \in ts : t.id # id}

----------------------------------------------------------------------------
(* The file system along LOG_DIR.  nodes[i] says what the i-th prefix of   *)
(* the path is: a directory, a file, or absent; nothing exists below a     *)
(* prefix that is not a directory.  writable says whether the process may  *)
(* create entries there.                                                   *)

LOG_DIR == <<"usr", "src", "app", "logs">>

\* The prefixes of nodes that are directories, from the root on.
RECURSIVE DirDepth(_)
DirDepth(nodes) ==
  IF nodes = <<>> \/ Head(nodes) # "dir" THEN 0 ELSE 1 + DirDepth(Tail(nodes))

\* LOG_DIR exists as a directory.
DirExists(d) == DirDepth(d.nodes) = Len(LOG_DIR)

\* The disk on which LOG_DIR exists and can be written.
DiskReady == [nodes |-> [i \in 1..Len(LOG_DIR) |-> "dir"], writable |-> TRUE]

\* The disks a process may be started on: /usr exists; below it the path
\* exists down to some depth, where it is absent or a file is in the way.
DiskSamples ==
  { [nodes |-> [i \in 1..Len(LOG_DIR) |->
                 IF i <= k THEN "dir" ELSE IF i = k + 1 THEN kind ELSE "absent"],
     writable |-> w] :
      k \in 1..Len(LOG_DIR), kind \in {"absent", "file"}, w \in BOOLEAN }

\* MkdirRecursive without the recursive option: the last component only, and
\* an error when it exists already.
MkdirPlain(d) ==
  LET depth == DirDepth(d.nodes)
      made == [d EXCEPT !.nodes = [i \in 1..Len(LOG_DIR) |-> "dir"]]
  IN IF depth = Len(LOG_DIR) THEN [err |-> "EEXIST", disk |-> d]
     ELSE IF d.nodes[depth + 1] = "file"
       THEN [err |-> IF depth + 1 = Len(LOG_DIR) THEN "EEXIST" ELSE "ENOTDIR",
             disk |-> d]
     ELSE IF depth + 1 < Len(LOG_DIR) THEN [err |-> "ENOENT", disk |-> d]
     ELSE IF ~d.writable THEN [err |-> "EACCES", disk |-> d]
     ELSE [err |-> "none", disk |-> made]

\* fs.mkdirSync(LOG_DIR, { recursive: true }): the error thrown ("none" when it
\* returns) and the disk afterwards.  An existing directory is not an error;
\* missing components are created from the deepest existing directory down.
MkdirRecursive(d) ==
  LET depth == DirDepth(d.nodes)
      made == [d EXCEPT !.nodes = [i \in 1..Len(LOG_DIR) |-> "dir"]]
  IN IF depth = Len(LOG_DIR) THEN [err |-> "none", disk |-> d]
     ELSE IF d.nodes[depth + 1] = "file"
       THEN [err |-> IF depth + 1 = Len(LOG_DIR) THEN "EEXIST" ELSE "ENOTDIR",
             disk |-> d]
     ELSE IF ~d.writable THEN [err |-> "EACCES", disk |-> d]
     ELSE [err |-> "none", disk |-> made]

VARIABLES
  turn,       \* the request whose synchronous turn runs, 0 when the loop is idle
  req,        \* req[r]: the request, NoReq before it arrives
  phase,      \* phase[r]: "new", "run", "waitBody", "waitDb", "responded",
              \*           "hung", "finished", "aborted"
  idx,        \* idx[r]: the position in Pipeline of the stage that runs next
  trace,      \* trace[r]: what the pipeline did for r, in order
  status,     \* status[r]: res.statusCode once a response is written, 0 before
  listeners,  \* listeners[r]: the response events accessLogger's handler is on
  stdout,     \* stdout[r]: the console.log lines written for r
  stderr,     \* stderr[r]: the console.error lines written for r
  ops,        \* ops[r]: the fs.appendFile calls issued for r
  file,       \* the access log, one atom per character or token
  resBody,    \* resBody[r]: the body of the response written for r
  start,      \* start[r]: the clock reading accessLogger took on entry
  hr,         \* process.hrtime.bigint(): the monotonic clock, in nanoseconds
  boot,       \* where the process is in its startup: "load", "connecting",
              \*   "listening", "crashed", "exited"
  starts,     \* how many times the process has been started
  disk,       \* the file system along LOG_DIR
  conn,       \* the database connection: "none", "connecting", "connected",
              \*   "failed"
  tasks,      \* the Task collection: the stored documents
  opens,      \* how many times the access log has been opened
  backend     \* backend[r]: the instance the proxy hands request r to

vars == <<turn, req, phase, idx, trace, status, listeners, stdout, stderr, ops,
          file, resBody, start, hr, boot, starts, disk, conn, tasks, opens,
          backend>>

Init ==
  /\ turn = 0
  /\ req = [r \in Requests |-> NoReq]
  /\ phase = [r \in Requests |-> "new"]
  /\ idx = [r \in Requests |-> 0]
  /\ trace = [r \in Requests |-> <<>>]
  /\ status = [r \in Requests |-> 0]
  /\ listeners = [r \in Requests |-> {}]
  /\ stdout = [r \in Requests |-> <<>>]
  /\ stderr = [r \in Requests |-> <<>>]
  /\ ops = [r \in Requests |-> <<>>]
  /\ file = <<>>
  /\ resBody = [r \in Requests |-> <<>>]
  /\ start = [r \in Requests |-> 0]
  /\ hr = 0
  /\ boot = "listening"
  /\ starts = 1
  /\ disk = DiskReady
  /\ conn = "connected"
  /\ tasks = {}
  /\ opens = 0
  /\ backend = [r \in Requests |-> "backend1"]

\* The stage about to run for r, inside r's turn.
AtStage(r, name) ==
  /\ turn = r
  /\ phase[r] = "run"
  /\ idx[r] \in 1..Len(Pipeline)
  /\ Pipeline[idx[r]] = name

\* res.status(code) and the end of the response with `body`: the turn is over
\* and the response waits to be flushed to the socket.
Respond(r, code, body, events) ==
  /\ status' = [status EXCEPT ![r] = code]
  /\ resBody' = [resBody EXCEPT ![r] = body]
  /\ phase' = [phase EXCEPT ![r] = "responded"]
  /\ trace' = [trace EXCEPT ![r] = @ \o events]
  /\ turn' = 0

\* next(): the following stage runs in the same turn.
CallNext(r, events) ==
  /\ idx' = [idx EXCEPT ![r] = @ + 1]
  /\ trace' = [trace EXCEPT ![r] = @ \o events]

\* A request arrives and Express starts the pipeline for it.  Requests are
\* numbered in arrival order.
Arrive(r, q) ==
  /\ boot = "listening"
  /\ turn = 0
  /\ phase[r] = "new"
  /\ \A p \in Requests : p < r => phase[p] # "new"
  /\ req' = [req EXCEPT ![r] = q]
  /\ phase' = [phase EXCEPT ![r] = "run"]
  /\ idx' = [idx EXCEPT ![r] = 1]
  /\ turn' = r
  /\ UNCHANGED <<trace, status, listeners, stdout, stderr, ops, file,
                 resBody, start, hr, boot, starts, disk,
                 tasks, opens, backend, conn>>

\* AccessLogger that writes its line on entry, before it calls next().
AccessLoggerAppendFirst(r) ==
  /\ AtStage(r, "accessLogger")
  /\ start' = [start EXCEPT ![r] = hr]
  /\ listeners' = [listeners EXCEPT ![r] = @ \cup CompletionEvents]
  /\ LET line == AccessLine(req[r], status[r], 0)
     IN ops' = [ops EXCEPT ![r] =
                  Append(@, [line |-> line, chunks |-> AppendChunks(line),
                             state |-> "issued"])]
  /\ CallNext(r, <<"al.start", "al.append", "al.next">>)
  /\ UNCHANGED <<turn, req, phase, status, stdout, stderr, file,
                 resBody, hr, boot, starts, disk,
                 tasks, opens, backend, conn>>

\* accessLogger(req, res, next): take the start time, register the completion
\* handler, call next().
AccessLogger(r) ==
  /\ AtStage(r, "accessLogger")
  /\ start' = [start EXCEPT ![r] = hr]
  /\ listeners' = [listeners EXCEPT ![r] = @ \cup CompletionEvents]
  /\ CallNext(r, <<"al.start", "al.on", "al.next">>)
  /\ UNCHANGED <<turn, req, phase, status, stdout, stderr, ops, file,
                 resBody, hr, boot, starts, disk,
                 tasks, opens, backend, conn>>

\* RequestLog that calls next() once before and once after the console.log.
RequestLogNextTwice(r) ==
  /\ AtStage(r, "requestLog")
  /\ stdout' = [stdout EXCEPT ![r] = Append(@, JsonStringify(LogObject(req[r])))]
  /\ CallNext(r, <<"rl.next", "rl.emit", "rl.next">>)
  /\ UNCHANGED <<turn, req, phase, status, listeners, stderr, ops, file,
                 resBody, start, hr, boot, starts, disk,
                 tasks, opens, backend, conn>>

\* RequestLog that also attaches the request id to the request, req.id = rid.
RequestLogSetsId(r) ==
  /\ AtStage(r, "requestLog")
  /\ req' = [req EXCEPT ![r].id = JsOr(req[r].rid, Str(<<"no-rid">>))]
  /\ stdout' = [stdout EXCEPT ![r] = Append(@, JsonStringify(LogObject(req[r])))]
  /\ CallNext(r, <<"rl.emit", "rl.next">>)
  /\ UNCHANGED <<turn, phase, status, listeners, stderr, ops, file,
                 resBody, start, hr, boot, starts, disk,
                 tasks, opens, backend, conn>>

\* requestLog(req, res, next): console.log the record, call next().
RequestLog(r) ==
  /\ AtStage(r, "requestLog")
  /\ stdout' = [stdout EXCEPT ![r] = Append(@, JsonStringify(LogObject(req[r])))]
  /\ CallNext(r, <<"rl.emit", "rl.next">>)
  /\ UNCHANGED <<turn, req, phase, status, listeners, stderr, ops, file,
                 resBody, start, hr, boot, starts, disk,
                 tasks, opens, backend, conn>>

\* express.json(): a request without a body goes on at once; otherwise the
\* parser waits for the body and the turn ends.
JsonParser(r) ==
  /\ AtStage(r, "json")
  /\ IF req[r].body = "none"
       THEN /\ CallNext(r, <<"json.next">>)
            /\ UNCHANGED <<turn, phase>>
       ELSE /\ phase' = [phase EXCEPT ![r] = "waitBody"]
            /\ turn' = 0
            /\ trace' = [trace EXCEPT ![r] = @ \o <<"json.wait">>]
            /\ UNCHANGED idx
  /\ UNCHANGED <<req, status, listeners, stdout, stderr, ops, file,
                 resBody, start, hr, boot, starts, disk,
                 tasks, opens, backend, conn>>

\* The body has been read: malformed JSON goes to Express's default error
\* handler, which answers 400; a parsed body goes on to the next stage.
BodyRead(r) ==
  /\ turn = 0
  /\ phase[r] = "waitBody"
  /\ IF req[r].body = "malformed"
       THEN /\ Respond(r, 400, HtmlBody, <<"json.error">>)
            /\ UNCHANGED idx
       ELSE /\ CallNext(r, <<"json.next">>)
            /\ phase' = [phase EXCEPT ![r] = "run"]
            /\ turn' = r
            /\ UNCHANGED <<status, resBody>>
  /\ UNCHANGED <<req, listeners, stdout, stderr, ops, file,
                 start, hr, boot, starts, disk,
                 tasks, opens, backend, conn>>

\* cors(...): a preflight (OPTIONS) is answered 204 here; anything else goes on.
Cors(r) ==
  /\ AtStage(r, "cors")
  /\ IF req[r].method = "OPTIONS"
       THEN /\ Respond(r, 204, <<>>, <<"cors.preflight">>)
            /\ UNCHANGED idx
       ELSE /\ CallNext(r, <<"cors.next">>)
            /\ UNCHANGED <<turn, phase, status, resBody>>
  /\ UNCHANGED <<req, listeners, stdout, stderr, ops, file,
                 start, hr, boot, starts, disk,
                 tasks, opens, backend, conn>>

\* The routes: no match falls through to Express's 404; a matched handler
\* starts and awaits the database, except that POST /api/tasks answers 400 at
\* once when the trimmed title is missing or empty.
Route(r) ==
  /\ AtStage(r, "route")
  /\ IF MatchRoute(req[r]) = "none"
       THEN /\ Respond(r, 404, HtmlBody, <<"route.none">>)
       ELSE IF MatchRoute(req[r]) = "create" /\ ~Truthy(CreateTitle(req[r]))
         THEN /\ Respond(r, 400, ErrorBody("title required"),
                         <<"route.handler", "handler.invalid">>)
       ELSE /\ phase' = [phase EXCEPT ![r] = "waitDb"]
            /\ turn' = 0
            /\ trace' = [trace EXCEPT ![r] = @ \o <<"route.handler">>]
            /\ UNCHANGED <<status, resBody>>
  /\ UNCHANGED <<req, idx, listeners, stdout, stderr, ops, file,
                 start, hr, boot, starts, disk,
                 tasks, opens, backend, conn>>

\* The database call of r's handler has succeeded and the handler goes on:
\* the call takes effect on the collection and the handler answers.
HandlerAnswers(r) ==
  LET q == req[r]
      route == MatchRoute(q)
  IN IF route = "health"
       THEN /\ Respond(r, 200, HealthBody(TRUE), <<"handler.ok">>)
            /\ UNCHANGED tasks
     ELSE IF route = "create"
       THEN /\ tasks' = tasks \cup {NewTask(r, q)}
            /\ Respond(r, 201, TaskBody, <<"handler.ok">>)
     ELSE IF route = "update"
       THEN LET after == AfterUpdate(tasks, ParamId(q), Updates(q), r)
                updated == {t \in after : t.id = ParamId(q)}
            IN /\ tasks' = after
               /\ IF updated = {}
                    THEN Respond(r, 404, ErrorBody("not found"), <<"handler.missing">>)
                    ELSE Respond(r, 200, TaskBody, <<"handler.ok">>)
     ELSE LET after == AfterDelete(tasks, ParamId(q))
              deletedCount == Cardinality(tasks) - Cardinality(after)
          IN /\ tasks' = after
             /\ IF deletedCount # 1
                  THEN Respond(r, 404, ErrorBody("not found"), <<"handler.missing">>)
                  ELSE Respond(r, 204, <<>>, <<"handler.ok">>)

\* DbReply with a /api/health handler that does not catch the failed ping.
DbReplyNoCatch(r, ok, express5) ==
  /\ turn = 0
  /\ phase[r] = "waitDb"
  /\ LET route == MatchRoute(req[r]) IN
       IF ok
         THEN HandlerAnswers(r)
       ELSE IF express5
         THEN /\ Respond(r, 500, HtmlBody, <<"handler.fail">>)
              /\ UNCHANGED tasks
       ELSE /\ phase' = [phase EXCEPT ![r] = "hung"]
            /\ trace' = [trace EXCEPT ![r] = @ \o <<"handler.reject">>]
            /\ UNCHANGED <<status, resBody, turn, tasks>>
  /\ UNCHANGED <<req, idx, listeners, stdout, stderr, ops, file,
                 start, hr, boot, starts, disk,
                 opens, backend, conn>>

\* The awaited database call settles.  /api/health catches a failure and
\* answers 500; the task routes have no catch: a rejection leaves the request
\* without a response (Express 4) or reaches the default error handler
\* (Express 5).
DbReply(r, ok, express5) ==
  /\ turn = 0
  /\ phase[r] = "waitDb"
  /\ LET route == MatchRoute(req[r]) IN
       IF ok
         THEN HandlerAnswers(r)
       ELSE IF route = "health"
         THEN /\ Respond(r, 500, HealthBody(FALSE), <<"handler.fail">>)
              /\ UNCHANGED tasks
       ELSE IF express5
         THEN /\ Respond(r, 500, HtmlBody, <<"handler.fail">>)
              /\ UNCHANGED tasks
       ELSE /\ phase' = [phase EXCEPT ![r] = "hung"]
            /\ trace' = [trace EXCEPT ![r] = @ \o <<"handler.reject">>]
            /\ UNCHANGED <<status, resBody, turn, tasks>>
  /\ UNCHANGED <<req, idx, listeners, stdout, stderr, ops, file,
                 start, hr, boot, starts, disk,
                 opens, backend, conn>>

\* OnCompletion with the status the response has when the request arrives, 200.
OnCompletionStatusAtArrival(r, ns) ==
  LET line == AccessLine(req[r], 200, ns)
  IN [line |-> line, chunks |-> AppendChunks(line), state |-> "issued"]

\* The completion handler of accessLogger: build the line, issue the append.
\* The value is the fs.appendFile call it makes.
OnCompletion(r, ns) ==
  LET line == AccessLine(req[r], status[r], ns)
  IN [line |-> line, chunks |-> AppendChunks(line), state |-> "issued"]

\* The response emits `event`: the handlers registered on it run.
EmitEvent(r, event, ns) ==
  IF event \in listeners[r]
    THEN /\ ops' = [ops EXCEPT ![r] = Append(@, OnCompletion(r, ns))]
         /\ trace' = [trace EXCEPT ![r] = @ \o <<event, "al.append">>]
    ELSE /\ trace' = [trace EXCEPT ![r] = @ \o <<event>>]
         /\ UNCHANGED ops

\* The response has been handed to the socket: 'finish'.
Finish(r, ns) ==
  /\ turn = 0
  /\ phase[r] = "responded"
  /\ phase' = [phase EXCEPT ![r] = "finished"]
  /\ EmitEvent(r, "finish", ns)
  /\ UNCHANGED <<turn, req, idx, status, listeners, stdout, stderr, file,
                 resBody, start, hr, boot, starts, disk,
                 tasks, opens, backend, conn>>

\* The connection is dropped before the response has finished: 'close' only.
Abort(r, ns) ==
  /\ turn = 0
  /\ phase[r] \in {"waitBody", "waitDb", "responded", "hung"}
  /\ phase' = [phase EXCEPT ![r] = "aborted"]
  /\ EmitEvent(r, "close", ns)
  /\ UNCHANGED <<turn, req, idx, status, listeners, stdout, stderr, file,
                 resBody, start, hr, boot, starts, disk,
                 tasks, opens, backend, conn>>

\* OpensAfterAppend with a handle opened by the first append and kept.
OpensWithSharedHandle(n) == IF n = 0 THEN 1 ELSE n

\* fs.appendFile is given the path ACCESS_LOG: every call opens the file for
\* appending, writes and closes it again.  The number of opens after a call
\* has started, n being the number before.
OpensAfterAppend(n) == n + 1

\* AppendWrite to a file not opened for appending: the bytes go to its start.
AppendWriteAtStart(r, i) ==
  /\ i \in DOMAIN ops[r]
  /\ ops[r][i].state = "issued"
  /\ ops[r][i].chunks # <<>>
  /\ file' = Head(ops[r][i].chunks) \o file
  /\ opens' = IF ops[r][i].chunks = AppendChunks(ops[r][i].line)
                THEN OpensAfterAppend(opens) ELSE opens
  /\ ops' = [ops EXCEPT ![r][i].chunks = Tail(@),
                        ![r][i].state = IF Tail(ops[r][i].chunks) = <<>>
                                          THEN "written" ELSE "issued"]
  /\ UNCHANGED <<turn, req, phase, idx, trace, status, listeners, stdout, stderr,
                 resBody, start, hr, boot, starts, disk,
                 tasks, backend, conn>>

\* One write of an append: the bytes go to the end of the file as it is now.
\* The first write of a call comes after its open.
AppendWrite(r, i) ==
  /\ i \in DOMAIN ops[r]
  /\ ops[r][i].state = "issued"
  /\ ops[r][i].chunks # <<>>
  /\ file' = file \o Head(ops[r][i].chunks)
  /\ opens' = IF ops[r][i].chunks = AppendChunks(ops[r][i].line)
                THEN OpensAfterAppend(opens) ELSE opens
  /\ ops' = [ops EXCEPT ![r][i].chunks = Tail(@),
                        ![r][i].state = IF Tail(ops[r][i].chunks) = <<>>
                                          THEN "written" ELSE "issued"]
  /\ UNCHANGED <<turn, req, phase, idx, trace, status, listeners, stdout, stderr,
                 resBody, start, hr, boot, starts, disk,
                 tasks, backend, conn>>

\* The append fails (disk full, permission revoked) before writing anything,
\* in its open or in its write.
AppendError(r, i) ==
  /\ i \in DOMAIN ops[r]
  /\ ops[r][i].state = "issued"
  /\ ops[r][i].chunks = AppendChunks(ops[r][i].line)
  /\ opens' = OpensAfterAppend(opens)
  /\ ops' = [ops EXCEPT ![r][i].state = "errored"]
  /\ UNCHANGED <<turn, req, phase, idx, trace, status, listeners, stdout, stderr, file,
                 resBody, start, hr, boot, starts, disk,
                 tasks, backend, conn>>

\* The callback of fs.appendFile runs, in a turn of its own.
AppendCallback(r, i) ==
  /\ turn = 0
  /\ i \in DOMAIN ops[r]
  /\ ops[r][i].state \in {"written", "errored"}
  /\ stderr' = [stderr EXCEPT ![r] = @ \o AppendCallbackOutput(ops[r][i].state = "errored")]
  /\ ops' = [ops EXCEPT ![r][i].state = IF @ = "errored" THEN "failed" ELSE "ok"]
  /\ UNCHANGED <<turn, req, phase, idx, trace, status, listeners, stdout, file,
                 resBody, start, hr, boot, starts, disk,
                 tasks, opens, backend, conn>>

\* JSON.stringify or console.log throws inside requestLog: the function has no
\* try/catch, so next() is not reached; Express catches the exception and its
\* default error handler answers 500.
RequestLogThrows(r) ==
  /\ AtStage(r, "requestLog")
  /\ Respond(r, 500, HtmlBody, <<"rl.throw">>)
  /\ UNCHANGED <<req, idx, listeners, stdout, stderr, ops, file,
                 start, hr, boot, starts, disk,
                 tasks, opens, backend, conn>>

\* The stages that run inside a turn.
SyncStep(r) ==
  \/ AccessLogger(r)
  \/ RequestLog(r)
  \/ JsonParser(r)
  \/ Cors(r)
  \/ Route(r)

\* What the network, the database and the file system do.
AsyncStep(r) ==
  \/ BodyRead(r)
  \/ \E ok \in BOOLEAN, express5 \in BOOLEAN : DbReply(r, ok, express5)
  \/ Abort(r, 0)
  \/ \E i \in DOMAIN ops[r] : AppendWrite(r, i)
  \/ \E i \in DOMAIN ops[r] : AppendError(r, i)
  \/ \E i \in DOMAIN ops[r] : AppendCallback(r, i)

\* The server under concurrent requests, one per way through the pipeline.
Next ==
  \/ \E r \in Requests, q \in RequestSamples : Arrive(r, q)
  \/ \E r \in Requests : SyncStep(r)
  \/ \E r \in Requests : AsyncStep(r)
  \/ \E r \in Requests : Finish(r, 1250000)

Spec == Init /\ [][Next]_vars

\* Spec with a log sink that may throw.
NextFault ==
  \/ Next
  \/ \E r \in Requests : RequestLogThrows(r)

SpecFault == Init /\ [][NextFault]_vars

\* One GET /api/health request under every header combination and elapsed time.
NextHdr ==
  \/ \E q \in HdrRequests : Arrive(1, q)
  \/ AccessLogger(1)
  \/ RequestLog(1)
  \/ JsonParser(1)
  \/ Cors(1)
  \/ Route(1)
  \/ \E ok \in BOOLEAN : DbReply(1, ok, FALSE)
  \/ \E ns \in ElapsedSamples : Finish(1, ns)
  \/ Abort(1, 0)
  \/ AppendWrite(1, 1)
  \/ AppendError(1, 1)
  \/ AppendCallback(1, 1)

SpecHdr == Init /\ [][NextHdr]_vars

\* What the process does by itself: the stages of a turn, the writes of an
\* append, its callback.
Internal ==
  \E r \in Requests :
    \/ SyncStep(r)
    \/ \E i \in DOMAIN ops[r] : AppendWrite(r, i) \/ AppendError(r, i)
    \/ \E i \in DOMAIN ops[r] : AppendCallback(r, i)

\* Spec with the scheduling Node guarantees: a turn runs to its end, a file
\* operation handed to the thread pool completes, its callback is run.
SpecLive == Spec /\ WF_vars(Internal)

----------------------------------------------------------------------------
(* The clock.  Spec and SpecHdr take the time a request took as an input   *)
(* of Finish; SpecClock lets the monotonic clock run and Finish read it.   *)

\* Time passes.
Tick(d) ==
  /\ hr + d <= MaxClock
  /\ hr' = hr + d
  /\ UNCHANGED <<turn, req, phase, idx, trace, status, listeners, stdout, stderr,
                 ops, file, resBody, start, boot, starts, disk,
                 tasks, opens, backend, conn>>

\* 'finish' with the duration the handler computes from the clock:
\* process.hrtime.bigint() - start.
FinishNow(r) == Finish(r, hr - start[r])

\* One request under a running clock.
NextClock ==
  \/ \E q \in RequestSamples : Arrive(1, q)
  \/ SyncStep(1)
  \/ AsyncStep(1)
  \/ \E d \in TickSamples : Tick(d)
  \/ FinishNow(1)

SpecClock == Init /\ [][NextClock]_vars

----------------------------------------------------------------------------
(* Startup.  Importing access-logs.js creates LOG_DIR; server.js then      *)
(* connects to the database and, once connected, builds the app and        *)
(* listens.                                                                *)

\* LoadModule with the mkdirSync error caught and ignored.
LoadModuleIgnoreError ==
  /\ boot = "load"
  /\ disk' = MkdirRecursive(disk).disk
  /\ boot' = "connecting"
  /\ conn' = "connecting"
  /\ UNCHANGED <<turn, req, phase, idx, trace, status, listeners, stdout, stderr,
                 ops, file, resBody, start, hr, starts,
                 tasks, opens, backend>>

\* The import of access-logs.js evaluates the module: mkdirSync runs at its top
\* level.  If it throws, the import fails, server.js is never evaluated and
\* the process dies of the uncaught exception; otherwise start() is called and
\* awaits mongoose.connect.
LoadModule ==
  /\ boot = "load"
  /\ LET made == MkdirRecursive(disk)
     IN /\ disk' = made.disk
        /\ boot' = IF made.err = "none" THEN "connecting" ELSE "crashed"
        /\ conn' = IF made.err = "none" THEN "connecting" ELSE conn
  /\ UNCHANGED <<turn, req, phase, idx, trace, status, listeners, stdout, stderr,
                 ops, file, resBody, start, hr, starts,
                 tasks, opens, backend>>

\* ConnectReply of a start() that listens without waiting for the connection.
ConnectReplyListenAnyway(ok) ==
  /\ boot = "connecting"
  /\ boot' = "listening"
  /\ conn' = IF ok THEN "connected" ELSE "failed"
  /\ UNCHANGED <<turn, req, phase, idx, trace, status, listeners, stdout, stderr,
                 ops, file, resBody, start, hr, starts, disk,
                 tasks, opens, backend>>

\* mongoose.connect settles: start() goes on to build the app and listen, or
\* its rejection reaches the catch that exits the process with code 1
\* ("exited").
ConnectReply(ok) ==
  /\ boot = "connecting"
  /\ boot' = IF ok THEN "listening" ELSE "exited"
  /\ conn' = IF ok THEN "connected" ELSE "failed"
  /\ UNCHANGED <<turn, req, phase, idx, trace, status, listeners, stdout, stderr,
                 ops, file, resBody, start, hr, starts, disk,
                 tasks, opens, backend>>

\* No request is in progress and no append is outstanding.
Idle ==
  /\ turn = 0
  /\ \A r \in Requests :
       /\ phase[r] \in {"new", "finished", "aborted"}
       /\ \A i \in DOMAIN ops[r] : ops[r][i].state \in {"ok", "failed"}

\* The process, stopped or idle, is started again on the same disk.
Restart ==
  /\ boot \in {"listening", "crashed", "exited"}
  /\ Idle
  /\ starts < MaxStarts
  /\ starts' = starts + 1
  /\ boot' = "load"
  /\ conn' = "none"
  /\ UNCHANGED <<turn, req, phase, idx, trace, status, listeners, stdout, stderr,
                 ops, file, resBody, start, hr, disk,
                 tasks, opens, backend>>

\* A line an earlier run of the server left in the access log.
OldLine == AccessLine(MkReq("GET", <<"/api/tasks">>, "none", Undefined, Undefined,
                            PeerAddr, Curl), 200, 0)

\* The process is started on some disk; an access log with a line of an
\* earlier run can only be there when LOG_DIR is.
InitStart ==
  /\ turn = 0
  /\ req = [r \in Requests |-> NoReq]
  /\ phase = [r \in Requests |-> "new"]
  /\ idx = [r \in Requests |-> 0]
  /\ trace = [r \in Requests |-> <<>>]
  /\ status = [r \in Requests |-> 0]
  /\ listeners = [r \in Requests |-> {}]
  /\ stdout = [r \in Requests |-> <<>>]
  /\ stderr = [r \in Requests |-> <<>>]
  /\ ops = [r \in Requests |-> <<>>]
  /\ resBody = [r \in Requests |-> <<>>]
  /\ start = [r \in Requests |-> 0]
  /\ hr = 0
  /\ boot = "load"
  /\ starts = 1
  /\ conn = "none"
  /\ tasks = {}
  /\ opens = 0
  /\ backend = [r \in Requests |-> "backend1"]
  /\ disk \in DiskSamples \cup {DiskReady}
  /\ file \in IF DirExists(disk) THEN {<<>>, OldLine} ELSE {<<>>}

\* The process from its start, serving one request once it listens.
NextStart ==
  \/ LoadModule
  \/ \E ok \in BOOLEAN : ConnectReply(ok)
  \/ Restart
  \/ \E q \in RequestSamples : Arrive(1, q)
  \/ SyncStep(1)
  \/ AsyncStep(1)
  \/ Finish(1, 1250000)

SpecStart == InitStart /\ [][NextStart]_vars

----------------------------------------------------------------------------
(* The documented deployment.  docker-compose runs two instances of the    *)
(* server, backend1 and backend2, behind the proxy; each mounts a volume   *)
(* at LOG_DIR.  `file` is the access.log of the volume api_logs.  The      *)
(* turns of the instances are taken one at a time.                         *)

Backends == {"backend1", "backend2"}

\* The volume the compose file mounts at /usr/src/app/logs in b.
LogVolume(b) == "api_logs"

\* The proxy hands each request to one of the instances.
InitDeploy ==
  /\ turn = 0
  /\ req = [r \in Requests |-> NoReq]
  /\ phase = [r \in Requests |-> "new"]
  /\ idx = [r \in Requests |-> 0]
  /\ trace = [r \in Requests |-> <<>>]
  /\ status = [r \in Requests |-> 0]
  /\ listeners = [r \in Requests |-> {}]
  /\ stdout = [r \in Requests |-> <<>>]
  /\ stderr = [r \in Requests |-> <<>>]
  /\ ops = [r \in Requests |-> <<>>]
  /\ file = <<>>
  /\ resBody = [r \in Requests |-> <<>>]
  /\ start = [r \in Requests |-> 0]
  /\ hr = 0
  /\ boot = "listening"
  /\ starts = 1
  /\ disk = DiskReady
  /\ conn = "connected"
  /\ opens = 0
  /\ tasks = {}
  /\ backend \in [Requests -> Backends]

SpecDeploy == InitDeploy /\ [][Next]_vars

----------------------------------------------------------------------------
(* The task routes, against a database that answers, up to the response.   *)

\* The server is listening and one task is stored.
InitTasks ==
  /\ turn = 0
  /\ req = [r \in Requests |-> NoReq]
  /\ phase = [r \in Requests |-> "new"]
  /\ idx = [r \in Requests |-> 0]
  /\ trace = [r \in Requests |-> <<>>]
  /\ status = [r \in Requests |-> 0]
  /\ listeners = [r \in Requests |-> {}]
  /\ stdout = [r \in Requests |-> <<>>]
  /\ stderr = [r \in Requests |-> <<>>]
  /\ ops = [r \in Requests |-> <<>>]
  /\ file = <<>>
  /\ resBody = [r \in Requests |-> <<>>]
  /\ start = [r \in Requests |-> 0]
  /\ hr = 0
  /\ boot = "listening"
  /\ starts = 1
  /\ disk = DiskReady
  /\ conn = "connected"
  /\ opens = 0
  /\ backend = [r \in Requests |-> "backend1"]
  /\ tasks = {Task0}

NextTasks ==
  \/ \E r \in Requests, q \in TaskRequests : Arrive(r, q)
  \/ \E r \in Requests : SyncStep(r)
  \/ \E r \in Requests : BodyRead(r)
  \/ \E r \in Requests : DbReply(r, TRUE, FALSE)

SpecTasks == InitTasks /\ [][NextTasks]_vars

----------------------------------------------------------------------------
(* Properties.                                                             *)

\* The positions of event e in a trace.
Positions(t, e) == {i \in DOMAIN t : t[i] = e}

\* What the stages after requestLog write to the trace.
LaterStageEvents ==
  {"json.next", "json.wait", "json.error", "cors.next", "cors.preflight",
   "route.none", "route.handler", "handler.ok", "handler.fail", "handler.reject"}

\* C1: every request that has reached the pipeline has at most one structured
\* log line; once its first turn is over, whatever the outcome, it has exactly
\* one; and whenever a later stage (body parser, CORS, route, handler) has run
\* for it, the line was emitted before that stage ran.
C1_OneLogLineBeforeLaterStages ==
  \A r \in Requests :
    /\ Len(stdout[r]) <= 1
    /\ phase[r] \notin {"new", "run"} => Len(stdout[r]) = 1
    /\ \A i \in DOMAIN trace[r] :
         trace[r][i] \in LaterStageEvents =>
           /\ Len(stdout[r]) = 1
           /\ \E j \in 1..(i - 1) : trace[r][j] = "rl.emit"

\* Two requests answered before any route ran, a malformed body (400) and a
\* preflight (204), each with its one log line.
C1_Witness ==
  \E a, b \in Requests :
    /\ phase[a] = "finished" /\ status[a] = 400 /\ Len(stdout[a]) = 1
    /\ phase[b] = "finished" /\ status[b] = 204 /\ Len(stdout[b]) = 1

\* C7: requestLog calls next() exactly once per invocation, in the step in which
\* it emits the line (no state has the line emitted and next() still to come),
\* and the call follows the emission.
C7_NextOnceAfterEmit ==
  \A r \in Requests :
    LET t == trace[r] IN
      /\ Cardinality(Positions(t, "rl.next")) = Len(stdout[r])
      /\ Cardinality(Positions(t, "rl.emit")) = Len(stdout[r])
      /\ Len(stdout[r]) <= 1
      /\ \A i \in Positions(t, "rl.next") : i > 1 /\ t[i - 1] = "rl.emit"
      /\ \A i \in Positions(t, "rl.emit") : i < Len(t) /\ t[i + 1] = "rl.next"
      /\ Len(stdout[r]) = 1 =>
           idx[r] > CHOOSE k \in DOMAIN Pipeline : Pipeline[k] = "requestLog"

\* requestLog has just run for a request: the line is out, next() was called,
\* and the request's turn goes on with the body parser.
C7_Witness ==
  \E r \in Requests :
    /\ AtStage(r, "json")
    /\ Len(stdout[r]) = 1
    /\ trace[r][Len(trace[r])] = "rl.next"

\* C9: both middlewares hand control on inside the turn that invoked them (the
\* state after either has the request still in its turn, at the next stage);
\* accessLogger calls next() before any append is issued for the request; and a
\* request in its turn can always run its next stage, whatever appends are
\* in flight.
C9_NoStageWaitsForAppend ==
  \A r \in Requests :
    LET t == trace[r] IN
      /\ (t # <<>> /\ t[Len(t)] \in {"al.next", "rl.next"}) =>
           turn = r /\ phase[r] = "run"
      /\ \A i \in Positions(t, "al.append") :
           \E j \in 1..(i - 1) : t[j] = "al.next"
      /\ ops[r] # <<>> => "al.next" \in {t[i] : i \in DOMAIN t}
      /\ (turn = r /\ phase[r] = "run" /\ idx[r] \in DOMAIN Pipeline) =>
           ENABLED SyncStep(r)

\* A request is at the route stage, inside its turn, while the append of
\* another request is still in flight.
C9_Witness ==
  \E r, p \in Requests :
    /\ r # p
    /\ AtStage(r, "route")
    /\ Len(ops[p]) = 1 /\ ops[p][1].state = "issued"

\* The appends of r whose line is in the file.
LinesAppended(r) ==
  Cardinality({i \in DOMAIN ops[r] : ops[r][i].state \in {"written", "ok"}})

\* The appends of r that have come to their end, callback included.
Settled(r) == \A i \in DOMAIN ops[r] : ops[r][i].state \in {"ok", "failed"}

\* The sum of F over the requests 1..n.
RECURSIVE SumTo(_, _)
SumTo(F(_), n) == IF n = 0 THEN 0 ELSE F(n) + SumTo(F, n - 1)

\* The number of newline-terminated lines in the file.
NewlineCount == Cardinality({k \in DOMAIN file : file[k] = "\n"})

\* f cut after each newline, from position `from` on, the piece that started at
\* `begin` being the one under way; a last piece without a newline is kept.
RECURSIVE SplitFrom(_, _, _)
SplitFrom(f, begin, from) ==
  IF from > Len(f)
    THEN IF begin > Len(f) THEN <<>> ELSE <<SubSeq(f, begin, Len(f))>>
  ELSE IF f[from] = "\n"
    THEN <<SubSeq(f, begin, from)>> \o SplitFrom(f, from + 1, from + 1)
  ELSE SplitFrom(f, begin, from + 1)

FileLines == SplitFrom(file, 1, 1)

\* C2 as stated: a finished response whose append has come to its end has exactly
\* one line in the file; an aborted request has no append, no line and no error
\* report.
C2_Original ==
  \A r \in Requests :
    /\ (phase[r] = "finished" /\ Settled(r)) => LinesAppended(r) = 1
    /\ phase[r] = "aborted" => ops[r] = <<>> /\ stderr[r] = <<>>

\* C2, amended: the completion handler runs exactly when the response finishes,
\* once, and issues one append; the line is in the file once that append has
\* succeeded and is not when it has failed; an aborted request never has an
\* append, a line or an error report; a request finishes or aborts at most once,
\* never both, and nothing happens in its pipeline afterwards.
C2_CompletionOnceOnFinish ==
  /\ \A r \in Requests :
       LET t == trace[r]
           ends == Positions(t, "finish") \cup Positions(t, "close")
       IN /\ Cardinality(ends) <= 1
          /\ phase[r] = "finished" <=> Positions(t, "finish") # {}
          /\ phase[r] = "aborted" <=> Positions(t, "close") # {}
          /\ \A i \in ends : \A j \in (i + 1)..Len(t) : t[j] = "al.append"
          /\ \A i \in Positions(t, "al.append") : t[i - 1] = "finish"
          /\ Cardinality(Positions(t, "al.append")) = Len(ops[r])
          /\ Len(ops[r]) <= 1
          /\ Len(ops[r]) = 1 <=> phase[r] = "finished"
          /\ phase[r] = "aborted" => stderr[r] = <<>>
          /\ \A i \in DOMAIN ops[r] :
               /\ ops[r][i].state = "ok" => LinesAppended(r) = 1
               /\ ops[r][i].state = "failed" => LinesAppended(r) = 0
  /\ NewlineCount = SumTo(LinesAppended, MaxReq)

\* One response finished with its line appended, one request aborted with
\* nothing written for it.
C2_Witness ==
  \E a, b \in Requests :
    /\ phase[a] = "finished" /\ Len(ops[a]) = 1 /\ ops[a][1].state = "ok"
    /\ file = ops[a][1].line
    /\ phase[b] = "aborted" /\ ops[b] = <<>>

\* The lines of the appends issued so far.
IssuedLines ==
  UNION {{ops[r][i].line : i \in DOMAIN ops[r]} : r \in Requests}

\* How many appends of line L have written all their bytes.
WrittenCount(L) ==
  LET F(r) == Cardinality({i \in DOMAIN ops[r] :
                 ops[r][i].line = L /\ ops[r][i].state \in {"written", "ok"}})
  IN SumTo(F, MaxReq)

\* C10 as stated: once every append has come to its end, the file holds one
\* complete line per finished response.
C10_Original ==
  (\A r \in Requests : Settled(r)) =>
    LET lines == FileLines IN
      /\ Len(lines) = Cardinality({r \in Requests : phase[r] = "finished"})
      /\ \A k \in DOMAIN lines : lines[k] \in IssuedLines

\* C10, amended: under every interleaving of the appends the file is a
\* sequence of complete, newline-terminated lines, each the whole line of one
\* completion, one per completion whose append has written (none for an append
\* that failed): no line is split, truncated or mixed with another.
C10_WholeLines ==
  LET lines == FileLines
      issued == IssuedLines
  IN /\ \A k \in DOMAIN lines : lines[k] \in issued
     /\ \A L \in issued :
          /\ L[Len(L)] = "\n"
          /\ Cardinality({k \in DOMAIN lines : lines[k] = L}) = WrittenCount(L)
     /\ (\A r \in Requests : Settled(r)) =>
          Len(lines) = Cardinality({r \in Requests :
            phase[r] = "finished" /\ \E i \in DOMAIN ops[r] : ops[r][i].state = "ok"})

\* Two appends in flight at once, neither callback run yet, have both written:
\* the file holds the two different lines, the later request's first.
C10_Witness ==
  \E a, b \in Requests :
    /\ a < b
    /\ Len(ops[a]) = 1 /\ ops[a][1].state = "written"
    /\ Len(ops[b]) = 1 /\ ops[b][1].state = "written"
    /\ ops[a][1].line # ops[b][1].line
    /\ file = ops[b][1].line \o ops[a][1].line

\* The part of C8 that holds in every state: one append per request at most, one
\* report exactly for a failed append and none otherwise, no line of a failed
\* append in the file, and a server that still takes and finishes requests once
\* an append has failed.
C8_Safety ==
  /\ \A r \in Requests :
       /\ Len(ops[r]) <= 1
       /\ Len(stderr[r]) <= 1
       /\ \A i \in DOMAIN ops[r] :
            /\ ops[r][i].state = "failed" =>
                 Len(stderr[r]) = 1 /\ LinesAppended(r) = 0
            /\ ops[r][i].state # "failed" => stderr[r] = <<>>
            /\ ops[r][i].state = "ok" => LinesAppended(r) = 1
  /\ NewlineCount = SumTo(LinesAppended, MaxReq)
  /\ (turn = 0 /\ \E r \in Requests : ops[r] # <<>> /\ ops[r][1].state = "failed") =>
       \A p \in Requests :
         /\ (phase[p] = "new" /\ \A o \in Requests : o < p => phase[o] # "new")
              => ENABLED (\E q \in RequestSamples : Arrive(p, q))
         /\ phase[p] = "responded" => ENABLED Finish(p, 0)

\* A finished response has had one of its two outcomes.
Outcome(r) ==
  phase[r] = "finished" =>
    /\ Len(ops[r]) = 1
    /\ \/ ops[r][1].state = "ok" /\ stderr[r] = <<>>
       \/ ops[r][1].state = "failed" /\ Len(stderr[r]) = 1

\* C8: a failed append is reported to console.error once and its line is not in
\* the file; no append is issued twice; the server goes on taking and finishing
\* requests whatever appends have failed; and from some point on every finished
\* response has had exactly one of the two outcomes, its line appended or its
\* failure reported.
C8_FailureReportedLineDropped ==
  /\ []C8_Safety
  /\ <>[](\A r \in Requests : Outcome(r))

\* One append failed and was reported, while another request's line was
\* appended.
C8_Witness ==
  \E a, b \in Requests :
    /\ Len(ops[a]) = 1 /\ ops[a][1].state = "failed" /\ Len(stderr[a]) = 1
    /\ Len(ops[b]) = 1 /\ ops[b][1].state = "ok"
    /\ file = ops[b][1].line

\* The requestId of the structured log line of r.
LoggedRequestId(r) == JsonGet(stdout[r][1], "requestId")

\* C3 as stated: without the header the requestId is "no-rid", with the header it
\* is the header value.
C3_Original ==
  \A r \in Requests :
    stdout[r] # <<>> =>
      LoggedRequestId(r) =
        IF req[r].rid = Undefined THEN Str(<<"no-rid">>) ELSE req[r].rid

\* C3, amended: requestLog never makes up an identifier: the requestId is
\* "no-rid" when the header is absent or empty, and the header value when the
\* header is present and not empty.
C3_RequestIdIsHeaderOrSentinel ==
  \A r \in Requests :
    stdout[r] # <<>> =>
      LoggedRequestId(r) =
        IF req[r].rid = Undefined \/ req[r].rid = Str(<<>>)
          THEN Str(<<"no-rid">>)
          ELSE req[r].rid

\* A request with an empty x-request-id header has been logged as "no-rid".
C3_Witness ==
  \E r \in Requests :
    /\ req[r].rid = Str(<<>>)
    /\ stdout[r] # <<>>
    /\ LoggedRequestId(r) = Str(<<"no-rid">>)

\* n spaces.
Spaces(n) == [k \in 1..n |-> " "]

\* The first comma-separated entry of header value s, without the white space
\* around it: the t that, between two runs of spaces, makes up what stands
\* before the first comma, and neither starts nor ends with a space.
FirstEntryTrimmed(s) ==
  LET commas == {k \in DOMAIN s : s[k] = ","}
      n == IF commas = {} THEN Len(s)
           ELSE (CHOOSE k \in commas : \A j \in commas : k <= j) - 1
      entry == SubSeq(s, 1, n)
  IN CHOOSE t \in {SubSeq(entry, a, b) : a \in 1..(n + 1), b \in 0..n} :
       /\ \E a, b \in 0..n : entry = Spaces(a) \o t \o Spaces(b)
       /\ t # <<>> => t[1] # " " /\ t[Len(t)] # " "

\* The address C4 gives for request q.
ExpectedAddress(q) ==
  LET entry == IF q.xff = Undefined THEN <<>> ELSE FirstEntryTrimmed(q.xff.s)
  IN IF entry # <<>> THEN entry
     ELSE IF q.peer # Undefined THEN q.peer.s
     ELSE <<"unknown">>

\* C4: the second field of every access-log line is the trimmed first entry of
\* x-forwarded-for when the header is present and that entry is not empty,
\* otherwise the peer address when there is one, otherwise "unknown".
C4_ClientAddress ==
  \A r \in Requests :
    \A i \in DOMAIN ops[r] :
      LET line == ops[r][i].line
          e == ExpectedAddress(req[r])
          at == Len(IsoNow) + 1
      IN /\ SubSeq(line, 1, at) = IsoNow \o <<" ">>
         /\ SubSeq(line, at + 1, at + Len(e)) = e
         /\ SubSeq(line, at + Len(e) + 1, Len(line)) =
              <<" ", req[r].method, " ">> \o req[r].url
                \o SubSeq(line, Len(line) - 7, Len(line))

\* The line of a request whose header is " 1," is in the file and carries the
\* address "1".
C4_Witness ==
  \E r \in Requests :
    /\ req[r].xff = Str(<<" ", "1", ",">>)
    /\ Len(ops[r]) = 1 /\ ops[r][1].state = "ok"
    /\ SubSeq(file, 1, 4) = IsoNow \o <<" ", "1", " ">>

\* The database event of the handler of r, "none" when no handler ran.
DbOutcome(r) ==
  LET t == trace[r]
      at == {i \in DOMAIN t : t[i] \in {"handler.ok", "handler.fail", "handler.reject"}}
  IN IF at = {} THEN "none" ELSE t[CHOOSE i \in at : TRUE]

\* C5: the response does not depend on what happened to the log lines: two
\* requests that are the same and meet the same database outcome are answered
\* with the same status, whether or not the emission of the structured line or
\* the append of the access line failed for either.
C5_ResponseIndependentOfLogging ==
  \A a, b \in Requests :
    (/\ req[a] = req[b]
     /\ DbOutcome(a) = DbOutcome(b)
     /\ status[a] # 0
     /\ status[b] # 0) => status[a] = status[b]

\* C6: whenever the emission inside requestLog has failed for a request,
\* requestLog has still called next(): the failure is followed by "rl.next" and
\* the request goes on to the body parser instead of being answered by the error
\* handler.
C6_EmitFailureSwallowed ==
  \A r \in Requests :
    \A i \in Positions(trace[r], "rl.throw") :
      /\ i < Len(trace[r])
      /\ trace[r][i + 1] = "rl.next"

----------------------------------------------------------------------------
(* Startup.                                                                *)

\* C11: when the creation of the log directory fails at startup, the process
\* dies during startup: it gets past the module load (connects, listens, exits
\* on a failed connection) only with the directory in place, it serves no
\* request without it, and it crashes only when the directory is not there.
C11_MkdirFailureStopsStartup ==
  /\ boot \in {"connecting", "listening", "exited"} => DirExists(disk)
  /\ (\E r \in Requests : phase[r] # "new") => DirExists(disk)
  /\ boot = "crashed" => ~DirExists(disk) /\ \A r \in Requests : phase[r] = "new"

\* The process has crashed at startup for want of permission to create LOG_DIR.
C11_Witness ==
  /\ boot = "crashed"
  /\ disk.nodes[Len(LOG_DIR)] = "absent"
  /\ ~disk.writable

\* C12: the directory creation at startup is idempotent: run when LOG_DIR
\* exists it succeeds and leaves the disk and the access log as they are, and
\* a run that succeeds leaves LOG_DIR in place, so that the next run succeeds.
C12_MkdirIdempotent ==
  /\ [][(boot = "load" /\ boot' # "load" /\ DirExists(disk))
          => (boot' = "connecting" /\ disk' = disk /\ file' = file)]_vars
  /\ [][(boot = "load" /\ boot' = "connecting") => DirExists(disk')]_vars

\* The second start has got past the directory creation, with the access log
\* of the first run still there.
C12_Witness ==
  /\ starts = 2
  /\ boot = "connecting"
  /\ file # <<>>

----------------------------------------------------------------------------
(* The access-log line, field by field.  The path of every request of the  *)
(* model is one atom, so the fields after the client address sit at fixed  *)
(* positions from the end of the line.                                     *)

LineAddress(line) == SubSeq(line, 3, Len(line) - 12)
LineMethod(line) == line[Len(line) - 10]
LinePath(line) == <<line[Len(line) - 8]>>
LineStatus(line) == line[Len(line) - 6]
LineDuration(line) == SubSeq(line, Len(line) - 4, Len(line) - 1)

\* The lines of the appends issued for r.
LinesOf(r) == {ops[r][i].line : i \in DOMAIN ops[r]}

\* dur is ns nanoseconds in milliseconds: a whole number, a point, one digit
\* and "ms", no sign, off by no more than half a tenth.
IsRendering(dur, ns) ==
  \E k \in 0..(MaxClock \div 1000000 + 1), d \in 0..9 :
    /\ dur = <<ToString(k), ".", ToString(d), "ms">>
    /\ (10 * k + d) * 100000 - ns <= 50000
    /\ ns - (10 * k + d) * 100000 <= 50000

\* C13: the duration of an access-log line is the time on the monotonic clock
\* from the request entering accessLogger (start is the clock as it enters) to
\* the response finishing, never negative, written with one digit after the
\* decimal point and followed by "ms".
C13_DurationIsElapsedOneDecimal ==
  /\ [][\A r \in Requests :
          (/\ idx[r] \in DOMAIN Pipeline
           /\ Pipeline[idx[r]] = "accessLogger"
           /\ idx'[r] = idx[r] + 1) => start'[r] = hr]_vars
  /\ [][\A r \in Requests :
          Len(ops'[r]) > Len(ops[r]) =>
            /\ hr - start[r] >= 0
            /\ IsRendering(LineDuration(ops'[r][Len(ops'[r])].line),
                           hr - start[r])]_vars

\* A request that entered after the clock had advanced took 2.099999 ms, and
\* its line says 2.1ms.
C13_Witness ==
  \E r \in Requests :
    /\ start[r] > 0
    /\ ops[r] # <<>>
    /\ hr - start[r] = 2099999
    /\ LineDuration(ops[r][1].line) = <<"2", ".", "1", "ms">>

\* C14: every access-log line is one newline-terminated line of six
\* space-separated, non-empty fields, whatever the headers of the request.
C14_SixFields ==
  \A r \in Requests : \A line \in LinesOf(r) :
    /\ line[Len(line)] = "\n"
    /\ Cardinality({k \in DOMAIN line : line[k] = "\n"}) = 1
    /\ Cardinality({k \in DOMAIN line : line[k] = " "}) = 5
    /\ \A k \in 1..(Len(line) - 1) : line[k] = " " => line[k + 1] \notin {" ", "\n"}

\* The keys of a JSON text, in order.
JsonKeys(json) == [i \in DOMAIN json |-> json[i][1]]

\* C15: every structured log line carries the six keys timestamp, requestId,
\* ip, method, path and userAgent, also for a request without a user-agent.
C15_AllSixKeys ==
  \A r \in Requests : \A i \in DOMAIN stdout[r] :
    JsonKeys(stdout[r][i]) =
      <<"timestamp", "requestId", "ip", "method", "path", "userAgent">>

\* C16: GET /api/health always answers: 200 with ok true when the ping
\* succeeds, 500 with ok false when it fails; the failure is never left
\* unhandled and never leaves the request without a response.
C16_HealthAlwaysAnswers ==
  \A r \in Requests :
    MatchRoute(req[r]) = "health" =>
      /\ phase[r] # "hung"
      /\ Positions(trace[r], "handler.reject") = {}
      /\ Positions(trace[r], "handler.ok") # {} =>
            /\ phase[r] \in {"responded", "finished", "aborted"}
            /\ status[r] = 200
            /\ resBody[r] # <<>> /\ resBody[r][1] = <<"ok", "true">>
      /\ Positions(trace[r], "handler.fail") # {} =>
            /\ phase[r] \in {"responded", "finished", "aborted"}
            /\ status[r] = 500
            /\ resBody[r] # <<>> /\ resBody[r][1] = <<"ok", "false">>
      /\ phase[r] \in {"responded", "finished"} =>
            Positions(trace[r], "handler.ok") \cup Positions(trace[r], "handler.fail") # {}

\* A health check whose ping failed has been answered 500, ok false, and the
\* response has finished.
C16_Witness ==
  \E r \in Requests :
    /\ MatchRoute(req[r]) = "health"
    /\ Positions(trace[r], "handler.fail") # {}
    /\ phase[r] = "finished"
    /\ status[r] = 500

\* C17 as stated: the structured log line is emitted before the completion
\* handler is registered.
C17_Original ==
  \A r \in Requests :
    \A i \in Positions(trace[r], "al.on") :
      \E j \in Positions(trace[r], "rl.emit") : j < i

\* C17: for one request the completion handler is registered before the
\* structured log line is emitted (accessLogger is registered first), and the
\* line is emitted before the handler runs.
C17_HandlerRegisteredBeforeLogLine ==
  \A r \in Requests :
    \A j \in Positions(trace[r], "rl.emit") :
      /\ \E i \in Positions(trace[r], "al.on") : i < j
      /\ \A k \in Positions(trace[r], "al.append") : j < k

\* A request whose log line was emitted and whose completion handler has run.
C17_Witness ==
  \E r \in Requests :
    /\ Positions(trace[r], "rl.emit") # {}
    /\ Positions(trace[r], "al.append") # {}

\* C18: the client address, the method and the path of a request's access-log
\* line are the ip, method and path of its structured log record, whatever the
\* x-forwarded-for header of a request that has a peer address.
C18_SameAddressMethodPath ==
  \A r \in Requests : \A line \in LinesOf(r) :
    (stdout[r] # <<>> /\ req[r].peer # Undefined) =>
      /\ LineAddress(line) = Interp(JsonGet(stdout[r][1], "ip"))
      /\ <<LineMethod(line)>> = Interp(JsonGet(stdout[r][1], "method"))
      /\ LinePath(line) = Interp(JsonGet(stdout[r][1], "path"))

\* The status the pipeline answered r with, read off what it did; 0 when it
\* has not answered.
AnsweredStatus(r) ==
  LET Did(e) == Positions(trace[r], e) # {}
  IN IF Did("json.error") THEN 400
     ELSE IF Did("cors.preflight") THEN 204
     ELSE IF Did("route.none") THEN 404
     ELSE IF Did("handler.fail") THEN 500
     ELSE IF Did("handler.ok")
       THEN IF MatchRoute(req[r]) = "create" THEN 201 ELSE 200
     ELSE 0

\* C19: the status of an access-log line is the status of the response that
\* was sent: the line exists only once the response has finished, and carries
\* the status the pipeline answered with.
C19_StatusIsFinalStatus ==
  \A r \in Requests : \A line \in LinesOf(r) :
    /\ phase[r] = "finished"
    /\ AnsweredStatus(r) # 0
    /\ LineStatus(line) = ToString(AnsweredStatus(r))

\* The line of a created task says 201 and that of a malformed body 400.
C19_Witness ==
  /\ \E r \in Requests : \E line \in LinesOf(r) : LineStatus(line) = "201"
  /\ \E r \in Requests : \E line \in LinesOf(r) : LineStatus(line) = "400"

----------------------------------------------------------------------------
(* The access-log file: its writers, its opens, the order of its lines.    *)

\* The instances that have issued an append to the access.log of volume v.
WritersOf(v) ==
  {backend[r] : r \in {p \in Requests : ops[p] # <<>> /\ LogVolume(backend[p]) = v}}

\* C21: at most one process appends to a given access-log file.
C21_SingleWriter ==
  \A b \in Backends : Cardinality(WritersOf(LogVolume(b))) <= 1

\* The appends that have got as far as opening the file.
StartedAppends ==
  UNION {{<<r, i>> : i \in {j \in DOMAIN ops[r] : ops[r][j].state # "issued"}} :
           r \in Requests}

Landed(r) == \E i \in DOMAIN ops[r] : ops[r][i].state \in {"written", "ok"}

\* The append of r has been issued and has not completed.
Pending(r) == \E i \in DOMAIN ops[r] : ops[r][i].state = "issued"

\* C23 as stated: a line whose append was issued first is never written after
\* the line of an append issued later.
C23_Original ==
  \A r1, r2 \in Requests :
    [](Pending(r1) /\ ops[r2] = <<>>
         => [](Pending(r1) /\ Landed(r2) => [](~Landed(r1))))

\* C23: an append is issued in the step in which a response finishes, one per
\* step, so the appends are issued in the order the responses finish; each
\* write puts the whole line of one issued append at the end of the file as it
\* is then, so the lines are in the file in the order the writes complete.
C23_IssueAndLanding ==
  /\ [][\A r \in Requests :
          Len(ops'[r]) > Len(ops[r])
            => /\ phase[r] = "responded" /\ phase'[r] = "finished"
               /\ Len(ops'[r]) = Len(ops[r]) + 1
               /\ ops'[r][Len(ops'[r])].state = "issued"
               /\ \A p \in Requests \ {r} : ops'[p] = ops[p]]_vars
  /\ [][file' # file
          => \E r \in Requests : \E i \in DOMAIN ops[r] :
               /\ ops[r][i].state = "issued"
               /\ file' = file \o ops[r][i].line
               /\ ops'[r][i].state = "written"
               /\ \A p \in Requests \ {r} : ops'[p] = ops[p]]_vars

\* Two requests with different lines have finished and both lines are written,
\* that of the second before that of the first.
C23_Witness ==
  /\ \A r \in {1, 2} : phase[r] = "finished" /\ Landed(r)
  /\ ops[1][1].line # ops[2][1].line
  /\ file = ops[2][1].line \o ops[1][1].line

----------------------------------------------------------------------------
(* Startup order.                                                          *)

\* C24: the server listens, and takes requests, only when LOG_DIR exists and
\* the database connection is established; when the connection fails the
\* process has exited and does not listen.
C24_ListenAfterReady ==
  /\ boot = "listening" => DirExists(disk) /\ conn = "connected"
  /\ conn = "failed" <=> boot = "exited"
  /\ \A r \in Requests :
       phase[r] \notin {"new", "finished", "aborted"} => boot = "listening"

\* The process served a request, was started again and could not connect.
C24_Witness ==
  /\ boot = "exited"
  /\ conn = "failed"
  /\ starts = 2
  /\ phase[1] = "finished"

----------------------------------------------------------------------------
(* The task routes.                                                        *)

\* The step answers request r, whose route is `route`.
Answers(r, route) ==
  /\ status[r] = 0
  /\ status'[r] # 0
  /\ MatchRoute(req[r]) = route

\* The title of a body is missing, empty or spaces only.
BlankTitle(title) ==
  title = Undefined \/ \A i \in DOMAIN title.s : title.s[i] = " "

\* t is s without the spaces at its two ends.
IsTrimOf(t, s) ==
  /\ \E a, b \in 0..Len(s) : s = Spaces(a) \o t \o Spaces(b)
  /\ t = <<>> \/ (t[1] # " " /\ t[Len(t)] # " ")

\* The ids of the stored tasks.
Ids(ts) == {t.id : t \in ts}

\* C25: every stored task has a non-empty title.
C25_TitlesNonEmpty == \A t \in tasks : t.title # <<>>

\* C26: POST /api/tasks with a missing, empty or blank title answers 400 and
\* stores nothing; with any other title it answers 201 and stores exactly one
\* more task, under an id no stored task has, with the title trimmed and done
\* the truth value of the body's done.
C26_Create ==
  [][\A r \in Requests :
       Answers(r, "create")
         => IF BlankTitle(req[r].json.title)
              THEN status'[r] = 400 /\ tasks' = tasks
              ELSE /\ status'[r] = 201
                   /\ \E t \in tasks' :
                        /\ tasks' = tasks \cup {t}
                        /\ t.id \notin Ids(tasks)
                        /\ IsTrimOf(t.title, req[r].json.title.s)
                        /\ t.done \in BOOLEAN
                        /\ t.done = Truthy(req[r].json.done)]_vars

\* A blank title has been refused and a padded one stored trimmed, with done
\* "yes" stored as true.
C26_Witness ==
  /\ \E r \in Requests :
       /\ status[r] = 400
       /\ req[r].json.title = Str(<<" ">>)
  /\ \E r \in Requests :
       /\ status[r] = 201
       /\ req[r].json.title = Str(<<" ", "a", " ">>)
       /\ \E t \in tasks : t.id = Uuid(r) /\ t.title = <<"a">> /\ t.done = TRUE

\* What the body of q makes of the title and of done of task t.
BodyApplied(t2, t, q) ==
  /\ IF q.json.title = Undefined
       THEN t2.title = t.title
       ELSE IsTrimOf(t2.title, q.json.title.s)
  /\ IF q.json.done = Undefined
       THEN t2.done = t.done
       ELSE t2.done = Truthy(q.json.done)

\* C27 as stated: PUT on a stored task changes its title and done as the body
\* says and nothing else.
C27_Original ==
  [][\A r \in Requests :
       Answers(r, "update") /\ ParamId(req[r]) \in Ids(tasks)
         => \A t \in tasks :
              IF t.id # ParamId(req[r])
                THEN t \in tasks'
                ELSE \E t2 \in tasks' :
                       /\ BodyApplied(t2, t, req[r])
                       /\ t2 = [t EXCEPT !.title = t2.title, !.done = t2.done]]_vars

\* C27: PUT on a stored task changes, of the addressed task, the title and
\* done the body has, and its updatedAt; its id, its createdAt, the one of
\* title and done the body does not have, and every other task stay as they are.
C27_UpdateFrame ==
  [][\A r \in Requests :
       Answers(r, "update") /\ ParamId(req[r]) \in Ids(tasks)
         => /\ status'[r] = 200
            /\ Cardinality(tasks') = Cardinality(tasks)
            /\ \A t \in tasks :
                 IF t.id # ParamId(req[r])
                   THEN t \in tasks'
                   ELSE \E t2 \in tasks' :
                          /\ BodyApplied(t2, t, req[r])
                          /\ t2 = [t EXCEPT !.title = t2.title, !.done = t2.done,
                                            !.updatedAt = t2.updatedAt]]_vars

\* Task "0" has been marked done by one PUT and renamed by a later one.
C27_Witness ==
  /\ [id |-> "0", title |-> <<"b">>, done |-> TRUE, createdAt |-> 0,
      updatedAt |-> 2] \in tasks
  /\ req[1].json = [title |-> Undefined, done |-> Bool(TRUE)]
  /\ req[2].json = [title |-> Str(<<" ", "b">>), done |-> Undefined]
  /\ status[1] = 200
  /\ status[2] = 200

\* C28: PUT and DELETE on an id no stored task has answer 404 and leave the
\* collection as it is; DELETE on a stored id answers 204 and removes that
\* task and no other; of two DELETEs of task "0" at most one answers 204.
C28_MissingAndDelete ==
  /\ [][\A r \in Requests :
          (Answers(r, "update") \/ Answers(r, "delete"))
            /\ ParamId(req[r]) \notin Ids(tasks)
              => status'[r] = 404 /\ tasks' = tasks]_vars
  /\ [][\A r \in Requests :
          Answers(r, "delete") /\ ParamId(req[r]) \in Ids(tasks)
            => /\ status'[r] = 204
               /\ Ids(tasks') = Ids(tasks) \ {ParamId(req[r])}
               /\ tasks' \subseteq tasks
               /\ Cardinality(tasks') = Cardinality(tasks) - 1]_vars
  /\ [](\A r1, r2 \in Requests :
          /\ r1 # r2
          /\ MatchRoute(req[r1]) = "delete" /\ ParamId(req[r1]) = "0"
          /\ MatchRoute(req[r2]) = "delete" /\ ParamId(req[r2]) = "0"
          => ~(status[r1] = 204 /\ status[r2] = 204))

\* Task "0" has been deleted and a second DELETE of it answered 404.
C28_Witness ==
  /\ \A r \in {1, 2} : MatchRoute(req[r]) = "delete" /\ ParamId(req[r]) = "0"
  /\ status[1] = 204
  /\ status[2] = 404
  /\ tasks = {}

====
